---- MODULE Spec2Model ----
(***************************************************************************)
(* State-machine model of gomcpgo/replicate-video-ai: the MCP handler      *)
(* (generate_video_from_text, continue_operation), the Generator           *)
(* (GenerateTextToVideo, ContinueGeneration), the Replicate client         *)
(* (CreatePrediction, GetPrediction, WaitForCompletion) and the Storage    *)
(* (GenerateStorageID, SaveMetadata, LoadMetadata, SaveVideoFromURL).      *)
(*                                                                         *)
(* The provider and the file system are the environment.  A handler call   *)
(* is split at its I/O points (one poll tick, the download, the metadata   *)
(* write) so that calls of several processes interleave as they can.       *)
(***************************************************************************)
EXTENDS Integers, Sequences, FiniteSets, TLC

\* ------------------------------------------------------------------ bounds
MaxJobs == 2        \* predictions the provider creates
NumIDs == 2         \* storage ids GenerateStorageID can draw (2^32 in the code)
NumProcs == 2       \* handler calls in flight (same or different processes)
MaxTicks == 1       \* poll ticks before the deadline of one wait
MaxCalls == 3        \* handler calls (tool invocations) over a run
MaxSize == 1        \* bytes of an artifact the provider serves
MaxMsgLen == 3      \* length of a provider error text

Jobs == 1..MaxJobs
StorageIDs == 1..NumIDs

\* The folder name runContinue passes as storage id: "unknown".  It sorts
\* after every id of hexadecimal digits.
UnknownID == NumIDs + 1
FolderNames == StorageIDs \cup {UnknownID}
Procs == 1..NumProcs

\* ------------------------------------------------ prediction status constants
StatusStarting == "starting"
StatusProcessing == "processing"
StatusSucceeded == "succeeded"
StatusFailed == "failed"
StatusCanceled == "canceled"

Running == {StatusStarting, StatusProcessing}
Terminal == {StatusSucceeded, StatusFailed, StatusCanceled}

\* A status a persisted record can hold that says the job is over.
RecordTerminal == {"completed", StatusFailed, StatusCanceled}

\* ------------------------------------------------------------------ state
VARIABLES
    remote,     \* provider: prediction id -> [status, output, size]
    folders,    \* storage ids whose folder exists under the root folder
    meta,       \* storage id -> content of <id>/metadata.yaml
    video,      \* storage id -> the video file of the folder
    proc,       \* handler call -> its position and locals while it runs
    resp,       \* handler call -> what it returned, with what it observed
    stored,     \* prediction id -> times SaveVideoFromURL stored its artifact
    issued,     \* prediction id -> storage id GenerateTextToVideo returned
    persisted,  \* prediction id -> GenerateTextToVideo wrote its record
    collided,   \* a submission drew a storage id whose folder existed
    overlap,    \* a continue call began while another ran for the same prediction
    ncalls,     \* handler calls started
    msgText,    \* error text of the failed prediction under extraction
    msgProc,    \* payload shape -> position and values of the message chain
    args,       \* the arguments the tool calls of the run are made with
    params,     \* the VideoParams the handler last passed to the generator
    input,      \* the input the generator last built for CreatePrediction
    inputImage, \* storage ids whose folder holds a copy of the input image
    waitTime,   \* the wait time last computed by handleContinueOperation
    loaded,     \* the metadata the completed branch of the handler loaded
    reported,   \* resolution and duration keys of the last completed response
    ident       \* the id arguments of the last continue_operation and their use

vars == <<remote, folders, meta, video, proc, resp, stored, issued, persisted,
          collided, overlap, ncalls, msgText, msgProc, args, params, input,
          inputImage, waitTime, loaded, reported, ident>>

coreVars == <<remote, folders, meta, video, proc, resp, stored, issued,
              persisted, collided, overlap, ncalls>>

msgVars == <<msgText, msgProc>>

reportVars == <<loaded, reported>>

argVars == <<args, params, input, inputImage, waitTime, reportVars, ident>>

\* ------------------------------------------------------------ the store
\* metadata.yaml as the map the code writes: the keys a write names are
\* present, the others absent (0, "" or FALSE).
NoMeta ==
    [exists |-> FALSE, readable |-> TRUE, submitFields |-> FALSE,
     prediction_id |-> 0, status |-> "", output_path |-> 0, file_size |-> 0,
     completed_at |-> FALSE]

NoVideo == [present |-> FALSE, pred |-> 0, size |-> 0]

\* A metadata.yaml that is there but cannot be read or is not valid YAML.
UnreadableMetadata == [NoMeta EXCEPT !.exists = TRUE, !.readable = FALSE]

\* LoadMetadata with a missing file treated as any other read failure.
LoadMetadataErrorOnMissing(s) == ~meta[s].exists \/ ~meta[s].readable

\* LoadMetadata's error result: nil when the file does not exist (the code
\* answers an empty map) or parses, an error when ReadFile fails otherwise or
\* the YAML does not parse.
LoadMetadataError(s) == meta[s].exists /\ ~meta[s].readable

\* LoadMetadata: the parsed map; an empty map when the file does not exist,
\* and no map beside an error.
LoadMetadata(s) == IF LoadMetadataError(s) THEN NoMeta ELSE meta[s]

\* SaveMetadata writes exactly the map it is given (plus generated_at): the
\* file is replaced, not merged.
SaveMetadata(s, m) == [meta EXCEPT ![s] = m]

\* The map GenerateTextToVideo saves at submission.
SubmitMetadata(j, st) ==
    [exists |-> TRUE, readable |-> TRUE, submitFields |-> TRUE,
     prediction_id |-> j, status |-> st, output_path |-> 0, file_size |-> 0,
     completed_at |-> FALSE]

\* The map ContinueGeneration saves at completion.
CompletionMetadata(j, path, size) ==
    [exists |-> TRUE, readable |-> TRUE, submitFields |-> FALSE,
     prediction_id |-> j, status |-> "completed", output_path |-> path,
     file_size |-> size, completed_at |-> TRUE]

\* The loop of findStorageIDForPrediction from entry s on, in directory
\* order: an entry that is not a directory is passed over, a LoadMetadata
\* error is passed over, the first record naming the prediction ends the
\* scan.  0 is the not-found error.
RECURSIVE ScanEntries(_, _)
ScanEntriesStopOnError(j, s) ==
    IF s > UnknownID THEN 0
    ELSE IF s \notin folders THEN ScanEntries(j, s + 1)
    ELSE IF LoadMetadataError(s) THEN 0
    ELSE IF LoadMetadata(s).prediction_id = j THEN s
    ELSE ScanEntries(j, s + 1)

ScanEntries(j, s) ==
    IF s > UnknownID THEN 0
    ELSE IF s \notin folders THEN ScanEntries(j, s + 1)
    ELSE IF LoadMetadataError(s) THEN ScanEntries(j, s + 1)
    ELSE IF LoadMetadata(s).prediction_id = j THEN s
    ELSE ScanEntries(j, s + 1)

findStorageIDForPrediction(j) == ScanEntries(j, 1)

\* ------------------------------------------------------------ responses
\* What a handler call returned, as the caller decodes it: kind "processing",
\* "completed" or "error" (with its type tag and message), the ids, the
\* output path and size.  Beside it, what the call observed: seen and err
\* are what WaitForCompletion returned (the status of the prediction, "nil"
\* for a nil prediction, and the kind of the error), or what CreatePrediction
\* was answered; goType is the dynamic type of the generator's error; rcalls
\* counts the call's requests to the client; termAtStart says the record
\* found at the start held a terminal status; usedSid is the storage id the
\* call worked under; wrote says the call wrote the record; cli says the
\* call came from the command line; cancelled says its context was done.
NoResp ==
    [kind |-> "none", op |-> "", errType |-> "", message |-> <<>>,
     pred |-> 0, sid |-> 0, path |-> 0, size |-> 0,
     seen |-> "", err |-> "", goType |-> "", rcalls |-> 0,
     usedSid |-> 0, termAtStart |-> FALSE, wrote |-> FALSE, cli |-> FALSE,
     cancelled |-> FALSE]

BuildProcessingResponse(op, j, s) ==
    [NoResp EXCEPT !.kind = "processing", !.op = op, !.pred = j, !.sid = s]

BuildErrorResponse(op, errType, message, j) ==
    [NoResp EXCEPT !.kind = "error", !.op = op, !.errType = errType,
                   !.message = message, !.pred = j]

BuildSuccessResponse(op, j, s, path, size) ==
    [NoResp EXCEPT !.kind = "completed", !.op = op, !.pred = j, !.sid = s,
                   !.path = path, !.size = size]

\* ------------------------------------------------------------ processes
\* pc: idle, wait (inside WaitForCompletion), download (before
\* SaveVideoFromURL), save (before SaveMetadata).
\* cli: the call is runContinue; cancelled: its context is done.
Idle ==
    [pc |-> "idle", pred |-> 0, sid |-> 0, ticks |-> 0, rcalls |-> 0,
     termAtStart |-> FALSE, size |-> 0, cli |-> FALSE, cancelled |-> FALSE]

Free(p) == proc[p].pc = "idle"

\* The prediction id the provider assigns next: ids are never reused.
Created == {j \in Jobs : remote[j].status # "none"}
NextPrediction == Cardinality(Created) + 1

NoPrediction == [status |-> "none", output |-> "none", size |-> 0]

\* ------------------------------------------------------------ arguments
\* The arguments of a tool call as the JSON decoder hands them over.  A
\* string key holds its string, or Absent when the key is missing or its value
\* is not a string.  A number key holds <<>> when the key is missing or its
\* value is not a number; else duration holds the value in halves of a
\* second (<<21>> is 10.5) and wait_time holds <<m, e>> for m * 10^e seconds.
Absent == "<absent>"

NoArgs ==
    [prompt |-> Absent, model |-> Absent, resolution |-> Absent,
     aspect_ratio |-> Absent, duration |-> <<>>, negative_prompt |-> Absent,
     image_path |-> Absent, wait_time |-> <<>>]

\* ModelConfigs: the models that have a configuration, their type and their
\* default resolution.  ModelAliases names two more ("wan-i2v-full",
\* "kling") that have no configuration.
ModelConfigs == {"wan-t2v-fast", "wan-i2v-fast", "veo3", "kling-master"}

ModelType(alias) ==
    CASE alias = "wan-t2v-fast" -> "t2v"
      [] alias = "wan-i2v-fast" -> "i2v"
      [] alias \in {"veo3", "kling-master"} -> "both"
      [] OTHER -> ""

DefaultRes(alias) ==
    CASE alias \in {"wan-t2v-fast", "wan-i2v-fast"} -> "480p"
      [] alias = "veo3" -> "720p"
      [] alias = "kling-master" -> "1080p"
      [] OTHER -> ""

\* IsTextToVideoModel over every name ModelAliases knows.
IsTextToVideoModelByAlias(alias) ==
    alias \in ModelConfigs \cup {"wan-i2v-full", "kling"}
        /\ ModelType(alias) # "i2v"

IsTextToVideoModel(alias) ==
    alias \in ModelConfigs /\ ModelType(alias) \in {"t2v", "both"}

IsImageToVideoModel(alias) ==
    alias \in ModelConfigs /\ ModelType(alias) \in {"i2v", "both"}

\* VideoParams, with Go's zero values.
NoParams ==
    [Prompt |-> "", Model |-> "", Resolution |-> "", AspectRatio |-> "",
     Duration |-> 0, NegativePrompt |-> "", ImagePath |-> ""]

MinDuration == 5
MaxDuration == 10
DefaultDuration == 5

\* int(durationFloat) of a value given in halves: truncation toward zero.
IntOfHalves(h) == IF h >= 0 THEN h \div 2 ELSE -((-h) \div 2)

\* args[key].(string) with ok: the string, else the zero value.
StringOrEmpty(v) == IF v = Absent THEN "" ELSE v

\* The checks and assignments the two extract functions share after the
\* model: resolution, aspect ratio (text only), duration, negative prompt.
DurationRejected(a) ==
    /\ a.duration # <<>>
    /\ \/ IntOfHalves(a.duration[1]) < MinDuration
       \/ IntOfHalves(a.duration[1]) > MaxDuration

\* extractTextToVideoParams: err is "" or names the check that failed.
extractTextToVideoParams(a) ==
    LET model == IF a.model \notin {Absent, ""} THEN a.model ELSE "wan-t2v-fast"
    IN IF a.prompt \in {Absent, ""} THEN [err |-> "prompt", params |-> NoParams]
       ELSE IF ~IsTextToVideoModel(model) THEN [err |-> "model", params |-> NoParams]
       ELSE IF DurationRejected(a) THEN [err |-> "duration", params |-> NoParams]
       ELSE [err |-> "",
             params |-> [NoParams EXCEPT
                 !.Prompt = a.prompt, !.Model = model,
                 !.Resolution = StringOrEmpty(a.resolution),
                 !.AspectRatio = StringOrEmpty(a.aspect_ratio),
                 !.Duration = IF a.duration = <<>> THEN 0
                              ELSE IntOfHalves(a.duration[1]),
                 !.NegativePrompt = StringOrEmpty(a.negative_prompt)]]

\* extractImageToVideoParams: the image path is checked first; there is no
\* aspect ratio.
extractImageToVideoParams(a) ==
    LET model == IF a.model \notin {Absent, ""} THEN a.model ELSE "wan-i2v-fast"
    IN IF a.image_path \in {Absent, ""} THEN [err |-> "image_path", params |-> NoParams]
       ELSE IF a.prompt \in {Absent, ""} THEN [err |-> "prompt", params |-> NoParams]
       ELSE IF ~IsImageToVideoModel(model) THEN [err |-> "model", params |-> NoParams]
       ELSE IF DurationRejected(a) THEN [err |-> "duration", params |-> NoParams]
       ELSE [err |-> "",
             params |-> [NoParams EXCEPT
                 !.ImagePath = a.image_path,
                 !.Prompt = a.prompt, !.Model = model,
                 !.Resolution = StringOrEmpty(a.resolution),
                 !.Duration = IF a.duration = <<>> THEN 0
                              ELSE IntOfHalves(a.duration[1]),
                 !.NegativePrompt = StringOrEmpty(a.negative_prompt)]]

\* The input map sent to the provider: a key the map does not hold is
\* Absent (<<>> for the number, FALSE for go_fast and its companions).
NoInput ==
    [prompt |-> Absent, resolution |-> Absent, aspect_ratio |-> Absent,
     negative_prompt |-> Absent, duration |-> <<>>, image |-> Absent,
     start_image |-> Absent, go_fast |-> FALSE]

\* The keys both builders set for every model.
BaseInput(p) ==
    [NoInput EXCEPT
        !.prompt = p.Prompt,
        !.resolution = IF p.Resolution # "" THEN p.Resolution
                       ELSE DefaultRes(p.Model)]

\* The keys the builders set for kling-master and veo3.
DurationInput(p) ==
    IF p.Duration > 0 THEN <<p.Duration>> ELSE <<DefaultDuration>>

NegativePromptInput(p) ==
    IF p.NegativePrompt # "" THEN p.NegativePrompt ELSE Absent

\* buildTextToVideoInput with the duration set for every model.
buildTextToVideoInputAnyModel(p) ==
    [BaseInput(p) EXCEPT !.duration = DurationInput(p),
                         !.negative_prompt = NegativePromptInput(p)]

buildTextToVideoInput(p) ==
    LET base == [BaseInput(p) EXCEPT
                    !.aspect_ratio = IF p.AspectRatio # "" THEN p.AspectRatio
                                     ELSE Absent]
    IN CASE p.Model = "wan-t2v-fast" -> [base EXCEPT !.go_fast = TRUE]
         [] p.Model = "veo3" ->
              [base EXCEPT !.negative_prompt = NegativePromptInput(p)]
         [] p.Model = "kling-master" ->
              [base EXCEPT !.duration = DurationInput(p),
                           !.negative_prompt = NegativePromptInput(p)]
         [] OTHER -> base

buildImageToVideoInput(p, dataURL) ==
    LET base == [BaseInput(p) EXCEPT !.image = dataURL]
    IN CASE p.Model = "wan-i2v-fast" -> [base EXCEPT !.go_fast = TRUE]
         [] p.Model = "veo3" ->
              [base EXCEPT !.negative_prompt = NegativePromptInput(p)]
         [] p.Model = "kling-master" ->
              [base EXCEPT !.image = Absent, !.start_image = dataURL,
                           !.duration = DurationInput(p),
                           !.negative_prompt = NegativePromptInput(p)]
         [] OTHER -> base

\* ------------------------------------------------------------ wait time
\* time.Duration is a 64-bit two's complement integer of nanoseconds.  It is
\* kept as its eight bytes, the least significant first, so that a product
\* wraps as the code's does.
Int64Bytes == 8

\* The duration of n, for 0 <= n < 2^31.
Int64(n) ==
    [i \in 1..Int64Bytes |-> IF i <= 4 THEN (n \div 256^(i - 1)) % 256 ELSE 0]

\* x * k modulo 2^64, for a small k >= 0.
RECURSIVE CarryInto(_, _, _)
CarryInto(x, k, i) ==
    IF i = 1 THEN 0 ELSE (x[i - 1] * k + CarryInto(x, k, i - 1)) \div 256

Times(x, k) == [i \in 1..Int64Bytes |-> (x[i] * k + CarryInto(x, k, i)) % 256]

\* -x modulo 2^64: the complement plus one.
Negate(x) ==
    [i \in 1..Int64Bytes |->
        IF \A k \in 1..(i - 1) : x[k] = 0 THEN (256 - x[i]) % 256 ELSE 255 - x[i]]

IsNegative(x) == x[Int64Bytes] >= 128

RECURSIVE UnsignedLess(_, _, _)
UnsignedLess(a, b, i) ==
    IF i = 0 THEN FALSE
    ELSE IF a[i] # b[i] THEN a[i] < b[i]
    ELSE UnsignedLess(a, b, i - 1)

\* a < b as signed 64-bit integers.
Less(a, b) ==
    IF IsNegative(a) # IsNegative(b) THEN IsNegative(a)
    ELSE UnsignedLess(a, b, Int64Bytes)

RECURSIVE TimesTenTo(_, _)
TimesTenTo(x, e) == IF e = 0 THEN x ELSE TimesTenTo(Times(x, 10), e - 1)

\* x * time.Second: Second = 1000 * Millisecond = 1000 * 1000 * Microsecond
\* = 1000 * 1000 * 1000 nanoseconds.
TimesSecond(x) == Times(Times(Times(x, 1000), 1000), 1000)

Seconds(n) == TimesSecond(Int64(n))

\* time.Duration(wt) of the float64 m * 10^e: the fraction is dropped.  The
\* values used stay below 2^63, where the conversion is defined.
DurationOf(wt) ==
    LET m == wt[1]
        e == wt[2]
        mag == IF m < 0 THEN -m ELSE m
        whole == IF e < 0 THEN Int64(mag \div 10) ELSE TimesTenTo(Int64(mag), e)
    IN IF m < 0 THEN Negate(whole) ELSE whole

DefaultWait == 30
MinWait == 5
MaxWait == 60

\* The wait time handleContinueOperation passes to ContinueGeneration.
WaitTime(a) ==
    IF a.wait_time = <<>> THEN Seconds(DefaultWait)
    ELSE LET w == TimesSecond(DurationOf(a.wait_time))
         IN IF Less(w, Seconds(MinWait)) THEN Seconds(MinWait)
            ELSE IF Less(Seconds(MaxWait), w) THEN Seconds(MaxWait)
            ELSE w

\* ------------------------------------------------------------ completed response
\* The keys of metadata.yaml the completed branch reads for resolution and
\* duration, as yaml.Unmarshal types them: a string key is its string or
\* Absent, a number key is <<>> when absent, else <<type, value>> with the
\* type "int" (a YAML integer) or "float64".
NoRecord ==
    [actual_resolution |-> Absent, resolution |-> Absent,
     actual_duration |-> <<>>, duration |-> <<>>]

\* The keys of the response that carry resolution and duration: in
\* parameters and in metrics; Absent or <<>> when the key is not set.
NoReport ==
    [variant |-> "", parameters_resolution |-> Absent, parameters_duration |-> <<>>,
     metrics_resolution |-> Absent, metrics_duration |-> <<>>,
     metrics_actual_resolution |-> Absent, metrics_actual_duration |-> <<>>]

\* v, ok := metadata[key].(T)
IsNumber(v, type) == v # <<>> /\ v[1] = type

\* The handler of part_002: requested values under parameters, actual
\* values under their own keys of metrics.
CompletedReport002(m) ==
    [NoReport EXCEPT
        !.variant = "part_002",
        !.parameters_resolution = m.resolution,
        !.parameters_duration = IF IsNumber(m.duration, "int") THEN m.duration ELSE <<>>,
        !.metrics_actual_resolution =
            IF m.actual_resolution \notin {Absent, ""} THEN m.actual_resolution ELSE Absent,
        !.metrics_actual_duration =
            IF IsNumber(m.actual_duration, "float64") /\ m.actual_duration[2] > 0
            THEN m.actual_duration ELSE <<>>]

\* The handler of part_004: metrics.resolution and metrics.duration are the
\* actual value, else the requested one; each number only as a float64.
CompletedReport004(m) ==
    [NoReport EXCEPT
        !.variant = "part_004",
        !.metrics_resolution =
            IF m.actual_resolution \notin {Absent, ""} THEN m.actual_resolution
            ELSE m.resolution,
        !.metrics_duration =
            IF IsNumber(m.actual_duration, "float64") /\ m.actual_duration[2] > 0
            THEN m.actual_duration
            ELSE IF IsNumber(m.duration, "float64") THEN m.duration ELSE <<>>]

\* ------------------------------------------------------------ operation id
\* A value of an argument that is not a string (a number, a boolean, null).
NotAString == "<not a string>"

\* The id arguments of a continue_operation call, the operation id the
\* handler took from them ("" when it took none), and whether the handler
\* went on to scan the store and to generate a storage id.
NoIdent ==
    [prediction_id |-> Absent, operation_id |-> Absent, operationID |-> "",
     calls |-> 0, scanned |-> FALSE, allocated |-> FALSE]

\* v, ok := args[key].(string); ok && v != ""
IsNonEmptyString(v) == v \notin {Absent, NotAString, ""}

\* The handler trying operation_id before prediction_id.
OperationIDPreferOperation(a) ==
    IF IsNonEmptyString(a.operation_id) THEN a.operation_id
    ELSE IF IsNonEmptyString(a.prediction_id) THEN a.prediction_id
    ELSE ""

\* handleContinueOperation, the extraction of the operation id: ""
\* stands for the branch that returns invalid_parameters.
OperationID(a) ==
    IF IsNonEmptyString(a.prediction_id) THEN a.prediction_id
    ELSE IF IsNonEmptyString(a.operation_id) THEN a.operation_id
    ELSE ""

\* The run's arguments when the claim is not about them: a prompt alone.
DefaultArgs == [NoArgs EXCEPT !.prompt = "a cat"]

NoWaitTime == <<>>

ArgsIdle ==
    /\ args = DefaultArgs
    /\ params = NoParams
    /\ input = NoInput
    /\ inputImage = {}
    /\ waitTime = NoWaitTime
    /\ loaded = NoRecord
    /\ reported = NoReport
    /\ ident = NoIdent

\* ------------------------------------------------------------ Init
CoreInit ==
    /\ remote = [j \in Jobs |-> NoPrediction]
    /\ folders = {}
    /\ meta = [s \in FolderNames |-> NoMeta]
    /\ video = [s \in FolderNames |-> NoVideo]
    /\ proc = [p \in Procs |-> Idle]
    /\ resp = [p \in Procs |-> NoResp]
    /\ stored = [j \in Jobs |-> 0]
    /\ issued = [j \in Jobs |-> 0]
    /\ persisted = [j \in Jobs |-> FALSE]
    /\ collided = FALSE
    /\ overlap = FALSE
    /\ ncalls = 0

\* ------------------------------------------------------------ the provider
\* The provider moves a prediction: starting -> processing -> succeeded,
\* or to failed or canceled from either.  A succeeded prediction has an
\* output: a URL string, or a value of another shape (a list).  The body
\* served under the URL has any length, the empty body included.
Outputs == {"string", "list"}
Sizes == 0..MaxSize

ProviderStart(j) ==
    /\ remote[j].status = StatusStarting
    /\ remote' = [remote EXCEPT ![j].status = StatusProcessing]
    /\ UNCHANGED <<folders, meta, video, proc, resp, stored, issued, persisted, collided, overlap, ncalls, msgVars, argVars>>

ProviderSucceed(j) ==
    /\ remote[j].status = StatusProcessing
    /\ \E o \in Outputs, n \in Sizes :
         remote' = [remote EXCEPT ![j] =
                      [status |-> StatusSucceeded, output |-> o,
                       size |-> IF o = "string" THEN n ELSE 0]]
    /\ UNCHANGED <<folders, meta, video, proc, resp, stored, issued, persisted, collided, overlap, ncalls, msgVars, argVars>>

ProviderFail(j) ==
    /\ remote[j].status \in Running
    /\ \E st \in {StatusFailed, StatusCanceled} :
         remote' = [remote EXCEPT ![j].status = st]
    /\ UNCHANGED <<folders, meta, video, proc, resp, stored, issued, persisted, collided, overlap, ncalls, msgVars, argVars>>

\* ------------------------------------------------------------ submission
\* CreatePrediction: what the HTTP exchange yields.  402 with a JSON body
\* holding a string "detail", 402 with another body, another status that is
\* neither 201 nor 200, a transport error, or the created prediction.
CreateOutcomes == {"created", "402_detail", "402_body", "500", "transport"}

\* The error text CreatePrediction returns, as its parts.
CreatePredictionError(outcome) ==
    CASE outcome = "402_detail" -> <<"billing issue: ", "detail">>
      [] outcome = "402_body" -> <<"billing issue (status 402): ", "body">>
      [] outcome = "500" -> <<"API error (status 500): ", "body">>
      [] OTHER -> <<"failed to send request: ", "cause">>

\* The dynamic type of the error GenerateTextToVideo returns: every error of
\* CreatePrediction is wrapped by fmt.Errorf with %w.
GenerateErrorType(outcome) == "*fmt.wrapError"

\* The error tag handleGenerateVideoFromText gives an error of the generator.
GenerateErrorTag(outcome) == "generation_failed"

\* SaveMetadata: the folder and the file are written, or MkdirAll fails, or
\* the folder is made and the write of the file fails.
SaveOutcomes == {"ok", "mkdir_failed", "write_failed"}

\* GenerateStorageID draws 8 hex digits of a random UUID: any id of the id
\* space, whether or not the store holds it already.
GenerateStorageID == StorageIDs

\* handleGenerateVideoFromText with GenerateTextToVideo: arguments that do
\* not pass extractTextToVideoParams are answered invalid_parameters and
\* nothing else happens; else the input is built, a storage id drawn, the
\* prediction created and the record saved.
GenerateTextToVideo(p) ==
    /\ Free(p)
    /\ ncalls < MaxCalls
    /\ ncalls' = ncalls + 1
    /\ LET e == extractTextToVideoParams(args) IN
       IF e.err # ""
       THEN /\ resp' = [resp EXCEPT ![p] =
                          [BuildErrorResponse("generate_video_from_text",
                                              "invalid_parameters", <<e.err>>, 0)
                             EXCEPT !.err = "rejected"]]
            /\ UNCHANGED <<remote, folders, meta, issued, persisted, collided,
                           params, input>>
       ELSE
         /\ params' = e.params
         /\ input' = buildTextToVideoInput(e.params)
         /\ \E s \in GenerateStorageID, outcome \in CreateOutcomes, save \in SaveOutcomes :
             IF outcome = "created"
             THEN /\ NextPrediction \in Jobs
                  /\ remote' = [remote EXCEPT ![NextPrediction] =
                                  [status |-> StatusStarting, output |-> "none", size |-> 0]]
                  /\ folders' = IF save = "mkdir_failed" THEN folders ELSE folders \cup {s}
                  /\ meta' = IF save = "ok"
                             THEN SaveMetadata(s, SubmitMetadata(NextPrediction, StatusStarting))
                             ELSE meta
                  /\ issued' = [issued EXCEPT ![NextPrediction] = s]
                  /\ persisted' = [persisted EXCEPT ![NextPrediction] = (save = "ok")]
                  /\ collided' = (collided \/ s \in folders)
                  /\ resp' = [resp EXCEPT ![p] =
                                [BuildProcessingResponse("generate_video_from_text",
                                                         NextPrediction, s)
                                   EXCEPT !.err = outcome, !.rcalls = 1, !.usedSid = s,
                                          !.wrote = (save = "ok")]]
             ELSE /\ save = "ok"
                  /\ resp' = [resp EXCEPT ![p] =
                                [BuildErrorResponse("generate_video_from_text",
                                    GenerateErrorTag(outcome),
                                    <<"failed to create prediction: ">>
                                        \o CreatePredictionError(outcome), 0)
                                   EXCEPT !.err = outcome, !.rcalls = 1,
                                          !.goType = GenerateErrorType(outcome)]]
                  /\ UNCHANGED <<remote, folders, meta, issued, persisted, collided>>
    /\ UNCHANGED <<proc, video, stored, overlap, msgVars, args, inputImage, waitTime, reportVars, ident>>

\* The file at image_path when the call is made.
ImageFiles == {"ok", "missing", "unreadable"}

\* handleGenerateVideoFromImage with GenerateImageToVideo: after the
\* arguments, os.Stat (file_not_found) and ImageToDataURL (which reads the
\* file); then the input is built, a storage id drawn and SaveInputImage
\* writes <id>/input.<ext>, which needs the folder <id> to exist and whose
\* failure is logged only; then the prediction is created and the record
\* saved, SaveMetadata making the folder.
GenerateImageToVideo(p) ==
    /\ Free(p)
    /\ ncalls < MaxCalls
    /\ ncalls' = ncalls + 1
    /\ LET e == extractImageToVideoParams(args) IN
       \E file \in ImageFiles :
         IF e.err # "" \/ file # "ok"
         THEN /\ e.err # "" => file = "missing"
              /\ resp' = [resp EXCEPT ![p] =
                            [BuildErrorResponse("generate_video_from_image",
                                 IF e.err # "" THEN "invalid_parameters"
                                 ELSE IF file = "missing" THEN "file_not_found"
                                 ELSE "generation_failed",
                                 IF e.err # "" THEN <<e.err>> ELSE <<file>>, 0)
                               EXCEPT !.err = "rejected"]]
              /\ params' = IF e.err = "" /\ file = "unreadable" THEN e.params ELSE params
              /\ UNCHANGED <<remote, folders, meta, issued, persisted, collided,
                             input, inputImage>>
         ELSE
           /\ params' = e.params
           /\ input' = buildImageToVideoInput(e.params, "data:image")
           /\ \E s \in GenerateStorageID, copied \in BOOLEAN,
                 outcome \in CreateOutcomes, save \in SaveOutcomes :
               /\ copied => s \in folders
               /\ inputImage' = IF copied THEN inputImage \cup {s} ELSE inputImage
               /\ IF outcome = "created"
                  THEN /\ NextPrediction \in Jobs
                       /\ remote' = [remote EXCEPT ![NextPrediction] =
                                       [status |-> StatusStarting, output |-> "none", size |-> 0]]
                       /\ folders' = IF save = "mkdir_failed" THEN folders ELSE folders \cup {s}
                       /\ meta' = IF save = "ok"
                                  THEN SaveMetadata(s, SubmitMetadata(NextPrediction, StatusStarting))
                                  ELSE meta
                       /\ issued' = [issued EXCEPT ![NextPrediction] = s]
                       /\ persisted' = [persisted EXCEPT ![NextPrediction] = (save = "ok")]
                       /\ collided' = (collided \/ s \in folders)
                       /\ resp' = [resp EXCEPT ![p] =
                                     [BuildProcessingResponse("generate_video_from_image",
                                                              NextPrediction, s)
                                        EXCEPT !.err = outcome, !.rcalls = 1, !.usedSid = s,
                                               !.wrote = (save = "ok")]]
                  ELSE /\ save = "ok"
                       /\ resp' = [resp EXCEPT ![p] =
                                     [BuildErrorResponse("generate_video_from_image",
                                         GenerateErrorTag(outcome),
                                         <<"failed to create prediction: ">>
                                             \o CreatePredictionError(outcome), 0)
                                        EXCEPT !.err = outcome, !.rcalls = 1,
                                               !.goType = GenerateErrorType(outcome)]]
                       /\ UNCHANGED <<remote, folders, meta, issued, persisted, collided>>
    /\ UNCHANGED <<proc, video, stored, overlap, msgVars, args, waitTime, reportVars, ident>>

\* ------------------------------------------------------------ continue
\* handleContinueOperation up to the call of ContinueGeneration: the storage
\* id is the one the scan finds, else a newly generated one.  The wait time
\* (5..60 s, polled every 2 s) is abstracted to the ticks before the deadline.
handleContinueOperation(p) ==
    /\ Free(p)
    /\ ncalls < MaxCalls
    /\ \E j \in Created, t \in 1..MaxTicks, fresh \in GenerateStorageID :
         LET found == findStorageIDForPrediction(j)
             s == IF found # 0 THEN found ELSE fresh
         IN /\ proc' = [proc EXCEPT ![p] =
                       [Idle EXCEPT !.pc = "wait", !.pred = j, !.sid = s, !.ticks = t,
                                    !.termAtStart =
                                        (found # 0 /\ LoadMetadata(s).status \in RecordTerminal)]]
            /\ overlap' = (overlap \/ \E q \in Procs \ {p} :
                                         proc[q].pc # "idle" /\ proc[q].pred = j)
    /\ resp' = [resp EXCEPT ![p] = NoResp]
    /\ ncalls' = ncalls + 1
    /\ UNCHANGED <<remote, folders, meta, video, stored, issued, persisted, collided, msgVars, argVars>>

\* runContinue (the command line's -continue <prediction id>): the storage
\* id is the placeholder "unknown", the wait is 60 s.
runContinue(p) ==
    /\ Free(p)
    /\ ncalls < MaxCalls
    /\ \E j \in Created, t \in 1..MaxTicks :
         LET found == findStorageIDForPrediction(j)
         IN /\ proc' = [proc EXCEPT ![p] =
                       [Idle EXCEPT !.pc = "wait", !.pred = j, !.sid = UnknownID,
                                    !.ticks = t, !.cli = TRUE,
                                    !.termAtStart =
                                        (found # 0 /\ LoadMetadata(found).status \in RecordTerminal)]]
            /\ overlap' = (overlap \/ \E q \in Procs \ {p} :
                                         proc[q].pc # "idle" /\ proc[q].pred = j)
    /\ resp' = [resp EXCEPT ![p] = NoResp]
    /\ ncalls' = ncalls + 1
    /\ UNCHANGED <<remote, folders, meta, video, stored, issued, persisted, collided, msgVars, argVars>>

\* What runContinue prints for the result: the success response for a
\* completed result, "Still processing" for an error with status
\* "processing", else log.Fatalf with the error.
runContinueOutput(r) ==
    IF r.kind = "completed" THEN r
    ELSE [r EXCEPT !.op = "continue", !.errType = ""]

\* The response of handleContinueOperation when ContinueGeneration returned
\* an error: the result is nil when the prediction was nil, else it carries
\* the prediction's status.
ContinueErrorResponse(j, s, seen, message) ==
    IF seen # "nil" /\ seen = "processing"
    THEN BuildProcessingResponse("continue_operation", j, s)
    ELSE BuildErrorResponse("continue_operation", "operation_failed", <<message>>, j)

\* The call returns response r, having made n more requests to the client
\* and WaitForCompletion having given (seen, err).
Return(p, seen, err, n, wrote, r) ==
    /\ proc' = [proc EXCEPT ![p] = Idle]
    /\ resp' = [resp EXCEPT ![p] =
                  [(IF proc[p].cli THEN runContinueOutput(r) ELSE r)
                      EXCEPT !.seen = seen, !.err = err, !.usedSid = proc[p].sid,
                             !.rcalls = proc[p].rcalls + n, !.cli = proc[p].cli,
                             !.cancelled = proc[p].cancelled,
                             !.termAtStart = proc[p].termAtStart, !.wrote = wrote]]

\* The context of the call is cancelled (by the caller, or by its deadline)
\* while the call is inside WaitForCompletion.
CancelContext(p) ==
    /\ proc[p].pc = "wait"
    /\ ~proc[p].cancelled
    /\ proc' = [proc EXCEPT ![p].cancelled = TRUE]
    /\ UNCHANGED <<remote, folders, meta, video, resp, stored, issued, persisted, collided, overlap, ncalls, msgVars, argVars>>

\* A clock that does not advance: the deadline is never nearer.
NextTickStuck(t) == t

\* The ticker: the ticks left before the deadline after one more tick.
NextTick(t) == t - 1

\* WaitForCompletion, a tick after the deadline: one more GetPrediction whose
\* error is dropped, returned with the timeout error.  A request made with a
\* context that is done fails.
WaitTimeout(p) ==
    /\ proc[p].pc = "wait"
    /\ proc[p].ticks = 0
    /\ \E ok \in BOOLEAN :
         LET seen == IF ok /\ ~proc[p].cancelled
                     THEN remote[proc[p].pred].status ELSE "nil"
         IN Return(p, seen, "timeout", 1, FALSE,
                   ContinueErrorResponse(proc[p].pred, proc[p].sid, seen,
                                         "operation timed out"))
    /\ UNCHANGED <<remote, folders, meta, video, stored, issued, persisted, collided, overlap, ncalls, msgVars, argVars>>

\* WaitForCompletion, a tick before the deadline whose GetPrediction fails.
WaitPollError(p) ==
    /\ proc[p].pc = "wait"
    /\ proc[p].ticks > 0
    /\ Return(p, "nil", "poll", 1, FALSE,
              ContinueErrorResponse(proc[p].pred, proc[p].sid, "nil", "API error"))
    /\ UNCHANGED <<remote, folders, meta, video, stored, issued, persisted, collided, overlap, ncalls, msgVars, argVars>>

\* WaitForCompletion, the select takes the case of the context being done.
WaitCanceled(p) ==
    /\ proc[p].pc = "wait"
    /\ proc[p].cancelled
    /\ Return(p, "nil", "ctx", 0, FALSE,
              ContinueErrorResponse(proc[p].pred, proc[p].sid, "nil", "context canceled"))
    /\ UNCHANGED <<remote, folders, meta, video, stored, issued, persisted, collided, overlap, ncalls, msgVars, argVars>>

\* WaitForCompletion returning a nil error for every terminal status.
WaitReturnsNilAnyTerminal(st) == st \in Terminal

\* The case of the switch in which WaitForCompletion returns a nil error.
WaitReturnsNil(st) == st = StatusSucceeded

\* WaitForCompletion, a tick before the deadline: the switch on the status.
\* On succeeded ContinueGeneration goes on to the output; a failed or
\* canceled prediction is returned with an error; else the loop goes on.
WaitPoll(p) ==
    /\ proc[p].pc = "wait"
    /\ proc[p].ticks > 0
    /\ ~proc[p].cancelled
    /\ LET j == proc[p].pred
           st == remote[j].status
       IN CASE WaitReturnsNil(st) ->
                 IF remote[j].output = "string"
                 THEN /\ proc' = [proc EXCEPT ![p].pc = "download",
                                              ![p].ticks = NextTick(@),
                                              ![p].rcalls = @ + 1]
                      /\ UNCHANGED resp
                 ELSE Return(p, st, "output", 1, FALSE,
                             BuildErrorResponse("continue_operation", "operation_failed",
                                                <<"unexpected output format">>, j))
            [] st = StatusFailed ->
                 Return(p, st, "failed", 1, FALSE,
                        ContinueErrorResponse(j, proc[p].sid, st, "prediction failed"))
            [] st = StatusCanceled ->
                 Return(p, st, "canceled", 1, FALSE,
                        ContinueErrorResponse(j, proc[p].sid, st, "prediction was canceled"))
            [] OTHER ->
                 /\ proc' = [proc EXCEPT ![p].ticks = NextTick(@), ![p].rcalls = @ + 1]
                 /\ UNCHANGED resp
    /\ UNCHANGED <<remote, folders, meta, video, stored, issued, persisted, collided, overlap, ncalls, msgVars, argVars>>

\* SaveVideoFromURL: the folder is made, the URL fetched and the body copied
\* to <id>/video.mp4.  MkdirAll can fail; the fetch (or os.Create) can fail
\* with the folder made; the copy can fail with the file created.
DownloadOutcomes == {"ok", "mkdir_failed", "get_failed", "copy_failed"}

\* ContinueGeneration going on to the record whatever SaveVideoFromURL gave.
DownloadFailedNever(outcome) == FALSE

\* ContinueGeneration's test of the error SaveVideoFromURL returned.
DownloadFailed(outcome) == outcome # "ok"

SaveVideoFromURL(p) ==
    /\ proc[p].pc = "download"
    /\ LET j == proc[p].pred
           s == proc[p].sid
       IN \E outcome \in DownloadOutcomes :
            /\ folders' = IF outcome = "mkdir_failed" THEN folders ELSE folders \cup {s}
            /\ video' = CASE outcome = "ok" ->
                               [video EXCEPT ![s] = [present |-> TRUE, pred |-> j,
                                                     size |-> remote[j].size]]
                          [] outcome = "copy_failed" ->
                               [video EXCEPT ![s] = [present |-> TRUE, pred |-> j,
                                                     size |-> 0]]
                          [] OTHER -> video
            /\ stored' = IF outcome = "ok" THEN [stored EXCEPT ![j] = @ + 1] ELSE stored
            /\ IF ~DownloadFailed(outcome)
               THEN /\ proc' = [proc EXCEPT ![p].pc = "save", ![p].size = remote[j].size]
                    /\ UNCHANGED resp
               ELSE Return(p, StatusSucceeded, "download", 0, FALSE,
                           BuildErrorResponse("continue_operation", "operation_failed",
                                              <<"failed to save video">>, j))
    /\ UNCHANGED <<remote, meta, issued, persisted, collided, overlap, ncalls, msgVars, argVars>>

\* ContinueGeneration after the download: the completion record is saved (a
\* failure is logged only) and the result is completed; the handler builds
\* the success response, its output path being the result's file path.
CompletionResultFatal(j, s, size, save) ==
    IF save = "ok"
    THEN BuildSuccessResponse("continue_operation", j, s, s, size)
    ELSE BuildErrorResponse("continue_operation", "operation_failed",
                            <<"failed to save metadata">>, j)

\* The result does not depend on how the save of the record went.
CompletionResult(j, s, size, save) ==
    BuildSuccessResponse("continue_operation", j, s, s, size)

SaveCompletion(p) ==
    /\ proc[p].pc = "save"
    /\ LET j == proc[p].pred
           s == proc[p].sid
       IN \E save \in SaveOutcomes :
            /\ save # "mkdir_failed"
            /\ meta' = IF save = "ok"
                       THEN SaveMetadata(s, CompletionMetadata(j, s, proc[p].size))
                       ELSE meta
            /\ Return(p, StatusSucceeded, "", 0, save = "ok",
                      CompletionResult(j, s, proc[p].size, save))
    /\ UNCHANGED <<remote, folders, video, stored, issued, persisted, collided, overlap, ncalls, msgVars, argVars>>

\* ------------------------------------------------------------ failure message
\* The text of a provider error, as a sequence of characters.
Chars == {"a", "d", "%"}
Texts == UNION {[1..n -> Chars] : n \in 0..MaxMsgLen}

\* The shapes of the "error" member of a failed prediction: absent (null), a
\* string, an object with a string "message", an object with a number
\* "message", an object without "message".
Shapes == {"nil", "string", "map", "map_number", "map_nomsg"}

Payload(shape, text) ==
    CASE shape = "string" -> [kind |-> "string", text |-> text, hasMessage |-> FALSE,
                              message |-> [kind |-> "none", text |-> <<>>]]
      [] shape = "map" -> [kind |-> "map", text |-> <<>>, hasMessage |-> TRUE,
                           message |-> [kind |-> "string", text |-> text]]
      [] shape = "map_number" -> [kind |-> "map", text |-> <<>>, hasMessage |-> TRUE,
                                  message |-> [kind |-> "number", text |-> <<"7">>]]
      [] shape = "map_nomsg" -> [kind |-> "map", text |-> <<>>, hasMessage |-> FALSE,
                                 message |-> [kind |-> "none", text |-> <<>>]]
      [] OTHER -> [kind |-> "nil", text |-> <<>>, hasMessage |-> FALSE,
                   message |-> [kind |-> "none", text |-> <<>>]]

\* fmt.Sprintf("%v", msg): a string as it is, a number as its digits.
SprintV(msg) == msg.text

\* fmt.Errorf(format) without operands: "%%" prints "%", "%" and a verb
\* print "%!verb(MISSING)", a "%" ending the format prints "%!(NOVERB)".
RECURSIVE Errorf(_)
Errorf(format) ==
    IF format = <<>> THEN <<>>
    ELSE IF Head(format) # "%" THEN <<Head(format)>> \o Errorf(Tail(format))
    ELSE IF Len(format) = 1 THEN <<"%!(NOVERB)">>
    ELSE IF format[2] = "%" THEN <<"%">> \o Errorf(SubSeq(format, 3, Len(format)))
    ELSE <<"%!", format[2], "(MISSING)">> \o Errorf(SubSeq(format, 3, Len(format)))

\* The extraction without the branch for an object payload: only a string
\* payload replaces the generic message.
FailureMessageStringOnly(e) ==
    IF e.kind = "string" THEN e.text ELSE <<"prediction failed">>

\* WaitForCompletion, case StatusFailed: the message taken from the payload.
FailureMessage(e) ==
    IF e.kind = "nil" THEN <<"prediction failed">>
    ELSE IF e.kind = "string" THEN e.text
    ELSE IF e.kind = "map" /\ e.hasMessage THEN SprintV(e.message)
    ELSE <<"prediction failed">>

\* The error WaitForCompletion returns for a failed prediction.
WaitFailedError(e) == Errorf(FailureMessage(e))

\* One failed prediction per payload shape, all with the same text, each
\* taken through WaitForCompletion, ContinueGeneration (which returns the
\* error as it got it) and the handler (whose error response carries
\* err.Error() as its message).
MsgStart == [pc |-> "failed", err |-> <<>>, message |-> <<>>]

MsgInit ==
    /\ msgText \in Texts
    /\ msgProc = [k \in Shapes |-> MsgStart]

MsgWaitForCompletion(k) ==
    /\ msgProc[k].pc = "failed"
    /\ msgProc' = [msgProc EXCEPT ![k].pc = "waited",
                                  ![k].err = WaitFailedError(Payload(k, msgText))]
    /\ UNCHANGED <<msgText, coreVars, argVars>>

MsgContinueGeneration(k) ==
    /\ msgProc[k].pc = "waited"
    /\ msgProc' = [msgProc EXCEPT ![k].pc = "continued"]
    /\ UNCHANGED <<msgText, coreVars, argVars>>

MsgHandler(k) ==
    /\ msgProc[k].pc = "continued"
    /\ msgProc' = [msgProc EXCEPT ![k].pc = "responded",
                                  ![k].message =
                                      BuildErrorResponse("continue_operation",
                                          "operation_failed", msgProc[k].err, 0).message]
    /\ UNCHANGED <<msgText, coreVars, argVars>>

MsgNext ==
    \E k \in Shapes :
       \/ MsgWaitForCompletion(k)
       \/ MsgContinueGeneration(k)
       \/ MsgHandler(k)

InitMsg == CoreInit /\ MsgInit /\ ArgsIdle

SpecMsg == InitMsg /\ [][MsgNext]_vars

\* ------------------------------------------------------------ specification
MsgIdle ==
    /\ msgText = <<>>
    /\ msgProc = <<>>

\* The provider moves a prediction.
Provider == \E j \in Jobs : ProviderStart(j) \/ ProviderSucceed(j) \/ ProviderFail(j)

\* A step of call p.
Call(p) ==
    \/ GenerateTextToVideo(p)
    \/ handleContinueOperation(p)
    \/ runContinue(p)
    \/ CancelContext(p)
    \/ WaitTimeout(p)
    \/ WaitPollError(p)
    \/ WaitCanceled(p)
    \/ WaitPoll(p)
    \/ SaveVideoFromURL(p)
    \/ SaveCompletion(p)

CoreNext == Provider \/ \E p \in Procs : Call(p)

Init == CoreInit /\ MsgIdle /\ ArgsIdle

Next == CoreNext

Spec == Init /\ [][Next]_vars

\* A step of the loop of WaitForCompletion in call p.  The ticker fires every
\* 2 s and a request of the client ends within its 60 s timeout, so a call
\* inside the loop takes its next step.
WaitStep(p) == WaitTimeout(p) \/ WaitPollError(p) \/ WaitCanceled(p) \/ WaitPoll(p)

\* The calls made one after the other, by one caller.
Caller == CHOOSE p \in Procs : \A q \in Procs : p <= q

WaitNext == Provider \/ Call(Caller)

SpecWait == Init /\ [][WaitNext]_vars /\ WF_vars(WaitStep(Caller))


\* ------------------------------------------------------------ claims
IsContinue(r) == r.op = "continue_operation"
IsGenerate(r) == r.op = "generate_video_from_text"

\* C1: once the record of a job holds a terminal status, a later continue
\* call for that job makes no request to the Remote Job Client: neither
\* while it runs nor by the time it has returned.
C1_NoClientCallAfterTerminal ==
    \A p \in Procs :
        /\ proc[p].termAtStart => proc[p].rcalls = 0
        /\ (IsContinue(resp[p]) /\ resp[p].termAtStart) => resp[p].rcalls = 0

\* C2: for a job that succeeded, continue calls made one after the other
\* return the same result path, and over them the artifact is downloaded and
\* stored at most once.
C2_SequentialCallsDownloadOnce ==
    ~overlap =>
        /\ \A j \in Jobs : stored[j] <= 1
        /\ \A p, q \in Procs :
              (/\ IsContinue(resp[p]) /\ resp[p].kind = "completed"
               /\ IsContinue(resp[q]) /\ resp[q].kind = "completed"
               /\ resp[p].pred = resp[q].pred) => resp[p].path = resp[q].path

\* C3: of two continue calls on the same job that run at the same time, at
\* most one gets past the check of the persisted status and downloads: the
\* two are never both between their download and their write of the record.
C3_OneConcurrentDownloader ==
    \A p, q \in Procs :
        (p # q /\ proc[p].pc = "save" /\ proc[q].pc = "save")
            => proc[p].pred # proc[q].pred

\* C4: a continue call whose wait ran out with the prediction still starting
\* or processing answers with the processing response and has not written
\* the record.
C4_TimeoutAnswersProcessing ==
    \A p \in Procs :
        (IsContinue(resp[p]) /\ resp[p].err = "timeout" /\ resp[p].seen \in Running)
            => (resp[p].kind = "processing" /\ ~resp[p].wrote)

\* C5: WaitForCompletion returns the timeout error only together with a
\* prediction: never with a nil one.
C5_TimeoutCarriesPrediction ==
    \A p \in Procs :
        (IsContinue(resp[p]) /\ resp[p].err = "timeout") => resp[p].seen # "nil"

\* C6: when a continue call has seen the prediction failed or canceled, the
\* record of the job holds that status by the time the call has returned, and
\* the call answers with an error.
C6_FailurePersisted ==
    \A p \in Procs :
        (IsContinue(resp[p]) /\ resp[p].seen \in {StatusFailed, StatusCanceled})
            => /\ resp[p].kind = "error"
               /\ LoadMetadata(resp[p].usedSid).status = resp[p].seen

\* C7: for a failed prediction whose error is a string, or an object with a
\* string message, the message of the handler's error response is the
\* provider's text, character for character.
C7_MessageVerbatim ==
    \A k \in {"string", "map"} :
        msgProc[k].pc = "responded" => msgProc[k].message = msgText

\* C8: a failed prediction whose error is the string text and one whose error
\* is the object {message: text} give the same error from WaitForCompletion.
C8_SameMessageBothShapes ==
    (msgProc["string"].pc # "failed" /\ msgProc["map"].pc # "failed")
        => msgProc["string"].err = msgProc["map"].err

\* Both predictions went through WaitForCompletion, the text holding a
\* character fmt.Errorf rewrites.
C8_Witness ==
    /\ msgProc["string"].pc # "failed"
    /\ msgProc["map"].pc # "failed"
    /\ Len(msgText) = MaxMsgLen
    /\ msgText[1] = "a" /\ msgText[2] = "%"
    /\ msgProc["map"].err # <<"prediction failed">>
    /\ msgProc["map_nomsg"].err = <<"prediction failed">>

\* C9: the answer to a submission the provider refused with 402 differs from
\* the answer to a submission that failed otherwise by the type of the error
\* or the tag of the error response, and holds the provider's detail.
InMessage(x, r) == \E i \in 1..Len(r.message) : r.message[i] = x

C9_BillingErrorDistinct ==
    \A p, q \in Procs :
        (/\ IsGenerate(resp[p]) /\ resp[p].err \in {"402_detail", "402_body"}
         /\ IsGenerate(resp[q]) /\ resp[q].err \in {"500", "transport"})
            => /\ (resp[p].errType # resp[q].errType \/ resp[p].goType # resp[q].goType)
               /\ (resp[p].err = "402_detail" => InMessage("detail", resp[p]))

\* C10: the storage ids returned by submissions are pairwise distinct, and
\* none was in the store when it was allocated.
C10_DistinctLocalIds ==
    /\ ~collided
    /\ \A i, j \in Jobs :
          (i # j /\ issued[i] # 0 /\ issued[j] # 0) => issued[i] # issued[j]

\* C11: a submission that answered with the prediction id made one request
\* to the client (CreatePrediction) and wrote the record of the prediction
\* under the storage id it answered with.
C11_SubmitWritesRecord ==
    \A p \in Procs :
        (IsGenerate(resp[p]) /\ resp[p].kind = "processing")
            => (resp[p].rcalls = 1 /\ resp[p].wrote)

\* C12: a write of a record keeps the fields the write does not name: a
\* record that holds the fields written at submission (operation, model,
\* prompt, parameters) holds them after every step.
C12_WriteKeepsSubmitFields ==
    [][\A s \in FolderNames :
          (LoadMetadata(s).submitFields /\ meta'[s] # meta[s]) => meta'[s].submitFields]_vars

\* C13: a completed continue call for a prediction whose record the
\* submission wrote, no storage id having been drawn twice, worked under the
\* storage id the submission returned.
C13_ContinueResolvesLocalId ==
    \A p \in Procs :
        (/\ IsContinue(resp[p]) /\ resp[p].kind = "completed"
         /\ persisted[resp[p].pred] /\ ~collided)
            => resp[p].usedSid = issued[resp[p].pred]

\* C14: the prediction id of a record never changes: a record that names a
\* prediction names the same prediction after every step.
C14_PredictionIdNeverChanges ==
    [][\A s \in FolderNames :
          LoadMetadata(s).prediction_id # 0
              => meta'[s].prediction_id = LoadMetadata(s).prediction_id]_vars

\* The step in which call p writes the completion record.
WritesCompletion(p) ==
    proc[p].pc = "save" /\ proc'[p].pc = "idle" /\ resp'[p].wrote

\* C15: the output path of a record is set at most once (no completion
\* record is written over a record that has an output path), and a record
\* with an output path has status completed.
C15_OutputPathSetOnce ==
    [][/\ \A p \in Procs :
             WritesCompletion(p) => LoadMetadata(proc[p].sid).output_path = 0
       /\ \A s \in FolderNames :
             meta'[s].output_path # 0 => meta'[s].status = "completed"]_vars

\* C16: a record that holds a terminal status holds the same status after
\* every step, and a record that exists is not removed.
C16_TerminalStatusKept ==
    [][\A s \in FolderNames :
          /\ LoadMetadata(s).status \in RecordTerminal
                => meta'[s].status = LoadMetadata(s).status
          /\ LoadMetadata(s).exists => meta'[s].exists]_vars

\* C17: a continue call that saw a succeeded prediction whose output is not a
\* URL string has stored nothing, has not written the record, and answers
\* with an error whose tag is not the tag of a failed prediction.
C17_MalformedOutputDistinct ==
    \A p \in Procs :
        (IsContinue(resp[p]) /\ resp[p].err = "output")
            => /\ resp[p].kind = "error"
               /\ ~resp[p].wrote
               /\ stored[resp[p].pred] = 0
               /\ resp[p].errType #
                     ContinueErrorResponse(resp[p].pred, resp[p].usedSid,
                                           StatusFailed, "prediction failed").errType

\* C18: a call one of whose polls failed returns the error of that poll and
\* has not written the record.  (A nil prediction comes from a failed poll or
\* from the context being done.)
C18_PollErrorReturned ==
    \A p \in Procs :
        (resp[p].seen = "nil" /\ resp[p].err # "ctx")
            => (resp[p].err = "poll" /\ ~resp[p].wrote)

\* The context's error: ctx.Err() itself, or the error of the request that
\* the done context made fail, which wraps it.
ContextErrors == {"ctx", "poll"}

\* C19: once the context of a call inside WaitForCompletion is cancelled, the
\* next step of the call is its return, without a poll that succeeds, and the
\* error it returns is the context's.
C19_CancellationObserved ==
    [][\A p \in Procs :
          /\ (proc[p].cancelled /\ proc'[p] # proc[p])
                => (proc'[p].pc = "idle" /\ resp'[p].seen = "nil")
          /\ resp'[p].cancelled => resp'[p].err \in ContextErrors]_vars

\* C20: every call inside WaitForCompletion leaves it, and it makes at most
\* one request per tick before the deadline and one more after it.
C20_WaitReturns ==
    /\ [](/\ proc[Caller].rcalls <= MaxTicks
          /\ resp[Caller].rcalls <= MaxTicks + 1)
    /\ (proc[Caller].pc = "wait") ~> (proc[Caller].pc # "wait")

\* A call polled on every tick up to the deadline, made the one request after
\* it and returned with the timeout error, the prediction still running.
C20_Witness ==
    /\ resp[Caller].err = "timeout"
    /\ resp[Caller].rcalls = MaxTicks + 1
    /\ resp[Caller].seen \in Running
    /\ proc[Caller].pc = "idle"

\* ------------------------------------------------------------ the store, read
\* The store as earlier runs may have left it: each folder name is absent, or
\* a folder with no metadata.yaml, with one that does not load, or with the
\* record of a submission or of a completion.
StoreRecords ==
    {NoMeta, UnreadableMetadata}
        \cup {SubmitMetadata(j, StatusStarting) : j \in Jobs}
        \cup {CompletionMetadata(j, s, MaxSize) : j \in Jobs, s \in StorageIDs}

InitStore ==
    /\ folders \in SUBSET FolderNames
    /\ meta \in [FolderNames -> StoreRecords]
    /\ \A s \in FolderNames :
          /\ meta[s].exists => s \in folders
          /\ meta[s].output_path # 0 => meta[s].output_path = s
    /\ remote = [j \in Jobs |-> NoPrediction]
    /\ video = [s \in FolderNames |-> NoVideo]
    /\ proc = [p \in Procs |-> Idle]
    /\ resp = [p \in Procs |-> NoResp]
    /\ stored = [j \in Jobs |-> 0]
    /\ issued = [j \in Jobs |-> 0]
    /\ persisted = [j \in Jobs |-> FALSE]
    /\ collided = FALSE
    /\ overlap = FALSE
    /\ ncalls = 0
    /\ MsgIdle
    /\ ArgsIdle

\* A call of Storage.LoadMetadata(s): the response keeps the error (err) and
\* the prediction_id of the map returned (0 when the key is absent).
CallLoadMetadata(p, s) ==
    /\ resp' = [resp EXCEPT ![p] =
                   [NoResp EXCEPT !.kind = "returned", !.op = "LoadMetadata",
                                  !.sid = s,
                                  !.err = IF LoadMetadataError(s) THEN "load" ELSE "",
                                  !.pred = LoadMetadata(s).prediction_id]]
    /\ UNCHANGED <<remote, folders, meta, video, proc, stored, issued,
                   persisted, collided, overlap, ncalls, msgVars, argVars>>

\* A call of findStorageIDForPrediction(j): sid is the id returned, err the
\* not-found error.
CallFindStorageID(p, j) ==
    LET found == findStorageIDForPrediction(j) IN
    /\ resp' = [resp EXCEPT ![p] =
                   [NoResp EXCEPT !.kind = "returned",
                                  !.op = "findStorageIDForPrediction",
                                  !.pred = j, !.sid = found,
                                  !.err = IF found = 0 THEN "not_found" ELSE ""]]
    /\ UNCHANGED <<remote, folders, meta, video, proc, stored, issued,
                   persisted, collided, overlap, ncalls, msgVars, argVars>>

StoreNext ==
    \E p \in Procs :
        \/ \E s \in FolderNames : CallLoadMetadata(p, s)
        \/ \E j \in Jobs : CallFindStorageID(p, j)

SpecStore == InitStore /\ [][StoreNext]_vars

\* C21: LoadMetadata for a local id that has no persisted record returns an
\* empty record and no error.
C21_LoadMissingIsEmpty ==
    \A p \in Procs :
        (resp[p].op = "LoadMetadata" /\ ~meta[resp[p].sid].exists)
            => resp[p].err = "" /\ resp[p].pred = 0

\* A load of a record that is not there has returned, under a folder that
\* exists and under a name with no folder.
C21_Witness ==
    \E p, q \in Procs :
        /\ resp[p].op = "LoadMetadata" /\ resp[q].op = "LoadMetadata"
        /\ ~meta[resp[p].sid].exists /\ resp[p].sid \in folders
        /\ ~meta[resp[q].sid].exists /\ resp[q].sid \notin folders

C23_SaveFailureNotFatal ==
    [][/\ \A j \in Jobs :
            (remote[j].status = "none" /\ remote'[j].status # "none"
                 /\ ~persisted'[j])
                => \E p \in Procs :
                      /\ resp'[p].kind = "processing" /\ IsGenerate(resp'[p])
                      /\ resp'[p].pred = j /\ resp'[p].sid = issued'[j]
                      /\ resp'[p].sid \in StorageIDs
       /\ \A p \in Procs :
            (proc[p].pc = "save" /\ proc'[p].pc = "idle" /\ ~resp'[p].wrote)
                => /\ resp'[p].kind = "completed"
                   /\ resp'[p].pred = proc[p].pred
                   /\ resp'[p].path = proc[p].sid
                   /\ resp'[p].size = proc[p].size]_vars

\* A Submit and a Continue have both returned their successful result
\* without having written the record.
C23_Witness ==
    \E p, q \in Procs :
        /\ IsGenerate(resp[p]) /\ resp[p].kind = "processing" /\ ~resp[p].wrote
        /\ ~persisted[resp[p].pred]
        /\ IsContinue(resp[q]) /\ resp[q].kind = "completed" /\ ~resp[q].wrote

\* C24: a Continue that observes the provider's success and completes
\* returns a non-empty result path and a size above zero, and the record it
\* writes holds the same path and size together with a completion timestamp.
C24_CompletedHasPathAndSize ==
    \A p \in Procs :
        (IsContinue(resp[p]) /\ resp[p].kind = "completed") =>
            /\ resp[p].seen = StatusSucceeded
            /\ resp[p].path # 0
            /\ resp[p].size > 0
            /\ (resp[p].wrote /\ ~collided /\ ~overlap) =>
                  /\ LoadMetadata(resp[p].usedSid).output_path = resp[p].path
                  /\ LoadMetadata(resp[p].usedSid).file_size = resp[p].size
                  /\ LoadMetadata(resp[p].usedSid).completed_at

\* C25: jobs are isolated: no step of an operation on one job changes the
\* record or the artifact that belongs to a different job.  Stated for the
\* runs in which no submission drew a storage id already in use.
C25_JobsIsolated ==
    [][~collided' =>
          \A s \in FolderNames :
              /\ (LoadMetadata(s).prediction_id # 0 /\ meta'[s] # meta[s])
                    => meta'[s].prediction_id = LoadMetadata(s).prediction_id
              /\ (video[s].present /\ video'[s] # video[s])
                    => video'[s].pred = video[s].pred]_vars

\* ------------------------------------------------------------ tool arguments
\* The arguments a caller can send: for the generate tools every combination
\* of a missing, empty and given prompt, the model names (configured, alias
\* only, unknown, empty, missing), resolution, aspect ratio, durations around
\* both limits in halves of a second, negative prompt and image path; for
\* continue_operation wait times around both limits, with and without a
\* fraction, and powers of ten.
DurationSlack == 2
BigExponent == 10
BigMantissa == 2
MaxArgCalls == 2

DurationHalves ==
    (2 * MinDuration - DurationSlack)..(2 * MinDuration + 1)
        \cup (2 * MaxDuration - 1)..(2 * MaxDuration + DurationSlack)

GenerateArgs ==
    [prompt : {Absent, "", "a cat"},
     model : {Absent, "wan-t2v-fast", "wan-i2v-fast", "veo3", "kling-master",
              "kling", "sora"},
     resolution : {Absent, "720p"},
     aspect_ratio : {Absent, "16:9"},
     duration : {<<>>} \cup {<<h>> : h \in DurationHalves},
     negative_prompt : {"", "blurry"},
     image_path : {Absent, "cat.png"},
     wait_time : {<<>>}]

WaitTimes ==
    {<<m, 0>> : m \in -1..(MaxWait + 1)}
        \cup {<<10 * k + d, -1>> : k \in {MinWait - 1, MinWait, MaxWait}, d \in {1, 9}}
        \cup {<<m, BigExponent>> : m \in 1..BigMantissa}

ContinueArgs == {[NoArgs EXCEPT !.wait_time = w] : w \in WaitTimes}

InitArgs ==
    /\ CoreInit
    /\ MsgIdle
    /\ args \in GenerateArgs \cup ContinueArgs
    /\ params = NoParams
    /\ input = NoInput
    /\ inputImage = {}
    /\ waitTime = NoWaitTime
    /\ loaded = NoRecord
    /\ reported = NoReport
    /\ ident = NoIdent

\* handleContinueOperation, the lines that compute the wait time.
handleContinueWaitTime ==
    /\ waitTime = NoWaitTime
    /\ waitTime' = WaitTime(args)
    /\ UNCHANGED <<coreVars, msgVars, args, params, input, inputImage, reportVars, ident>>

\* The calls of one caller, one after the other.
ArgsNext ==
    \/ ncalls < MaxArgCalls /\ GenerateTextToVideo(Caller)
    \/ ncalls < MaxArgCalls /\ GenerateImageToVideo(Caller)
    \/ handleContinueWaitTime

SpecArgs == InitArgs /\ [][ArgsNext]_vars

\* A generate tool has answered call p.
IsImageGenerate(r) == r.op = "generate_video_from_image"

\* C27: after a successful image-to-video submission whose record was
\* written, the storage folder holds a copy of the input image next to
\* metadata.yaml.
C27_InputImageStored ==
    \A p \in Procs :
        (IsImageGenerate(resp[p]) /\ resp[p].kind = "processing" /\ resp[p].wrote)
            => resp[p].sid \in inputImage

\* The model a call names, the tool's default when it names none.
RequestedModel(r) ==
    IF args.model \notin {Absent, ""} THEN args.model
    ELSE IF IsImageGenerate(r) THEN "wan-i2v-fast" ELSE "wan-t2v-fast"

\* The models the tool of response r accepts, as the tool list states them.
AcceptedModels(r) ==
    IF IsImageGenerate(r) THEN {"wan-i2v-fast", "veo3", "kling-master"}
    ELSE {"wan-t2v-fast", "veo3", "kling-master"}

\* Call p returns from a generate tool in this step.
GenerateReturns(p) ==
    /\ resp'[p] # resp[p]
    /\ IsGenerate(resp'[p]) \/ IsImageGenerate(resp'[p])

\* C26: the wait time passed to ContinueGeneration is within 5..60 seconds:
\* a wait_time below 5 gives 5, one above 60 gives 60, and a wait_time that is
\* absent or not a number gives 30.
C26_WaitTimeClamped ==
    waitTime # NoWaitTime =>
        /\ ~Less(waitTime, Seconds(MinWait))
        /\ ~Less(Seconds(MaxWait), waitTime)
        /\ args.wait_time = <<>> => waitTime = Seconds(DefaultWait)
        /\ args.wait_time # <<>> =>
              LET m == args.wait_time[1]
                  e == args.wait_time[2]
                  below == IF e < 0 THEN m < 10 * MinWait
                           ELSE IF e = 0 THEN m < MinWait ELSE m <= 0
                  above == IF e < 0 THEN m > 10 * MaxWait
                           ELSE IF e = 0 THEN m > MaxWait ELSE m >= 1
              IN /\ below => waitTime = Seconds(MinWait)
                 /\ above => waitTime = Seconds(MaxWait)

\* C28: each generate tool accepts exactly its three models, an omitted model
\* being the tool's default; a call that names any other model, or has no
\* non-empty prompt, is answered with an error, creates no prediction and
\* writes no record.
C28_ModelsAccepted ==
    [][\A p \in Procs :
          GenerateReturns(p) =>
              LET r == resp'[p]
                  model == RequestedModel(r)
                  bad == model \notin AcceptedModels(r) \/ args.prompt \in {Absent, ""}
              IN /\ bad => /\ r.kind = "error"
                           /\ remote' = remote /\ meta' = meta /\ folders' = folders
                           /\ inputImage' = inputImage
                 /\ r.kind = "processing" => params'.Model = model
                 /\ (/\ ~bad /\ ~DurationRejected(args)
                     /\ IsImageGenerate(r) => args.image_path \notin {Absent, ""})
                        => r.errType # "invalid_parameters"]_vars

\* The text tool has rejected the image tool's model, with a prompt given,
\* after the image tool accepted it: one prediction and no more.
C28_Witness ==
    \E p \in Procs :
        /\ IsGenerate(resp[p]) /\ resp[p].kind = "error"
        /\ resp[p].errType = "invalid_parameters"
        /\ resp[p].message = <<"model">>
        /\ args.model = "wan-i2v-fast" /\ args.prompt = "a cat"
        /\ params.Model = "wan-i2v-fast"
        /\ Cardinality(Created) = 1 /\ ncalls = MaxArgCalls

\* C29: both generate tools reject a duration below 5 or above 10 with an
\* invalid_parameters error, and pass a duration within 5..10 on unchanged.
C29_DurationRange ==
    \A p \in Procs :
        ((IsGenerate(resp[p]) \/ IsImageGenerate(resp[p])) /\ args.duration # <<>>)
            => LET h == args.duration[1] IN
               /\ (h < 2 * MinDuration \/ h > 2 * MaxDuration)
                     => resp[p].kind = "error" /\ resp[p].errType = "invalid_parameters"
               /\ resp[p].kind = "processing" => 2 * params.Duration = h

MaxSeconds == 1

RecordNumbers ==
    {<<>>} \cup {<<type, n>> : type \in {"int", "float64"}, n \in 0..MaxSeconds}

LoadedRecords ==
    [actual_resolution : {Absent, "", "1280x720"},
     resolution : {Absent, "720p"},
     actual_duration : RecordNumbers,
     duration : RecordNumbers]

InitReport ==
    /\ CoreInit
    /\ MsgIdle
    /\ args = DefaultArgs
    /\ params = NoParams
    /\ input = NoInput
    /\ inputImage = {}
    /\ waitTime = NoWaitTime
    /\ loaded \in LoadedRecords
    /\ reported = NoReport
    /\ ident = NoIdent

\* handleContinueOperation, case "completed": the response is built from
\* the record loaded, by the handler the program was built with.
handleContinueCompleted ==
    /\ \/ reported' = CompletedReport002(loaded)
       \/ reported' = CompletedReport004(loaded)
    /\ UNCHANGED <<coreVars, msgVars, args, params, input, inputImage, waitTime, loaded, ident>>

SpecReport == InitReport /\ [][handleContinueCompleted]_vars

\* The resolution and the duration a completed response reports: the keys
\* named resolution and duration, under metrics or parameters.
ReportedResolution ==
    IF reported.metrics_resolution # Absent THEN reported.metrics_resolution
    ELSE reported.parameters_resolution

ReportedDuration ==
    IF reported.metrics_duration # <<>> THEN reported.metrics_duration
    ELSE reported.parameters_duration

C32_DownloadOnlySucceeded ==
    [][\A p \in Procs :
          /\ (proc[p].pc = "wait" /\ proc'[p].pc = "download")
                => /\ remote[proc[p].pred].status = StatusSucceeded
                   /\ remote[proc[p].pred].output = "string"
          /\ (proc[p].pc = "wait" /\ proc'[p].pc = "idle"
                 /\ resp'[p].err \notin {"timeout", "poll", "ctx", "failed", "canceled"})
                => resp'[p].seen = StatusSucceeded
          /\ (proc[p].pc = "download" /\ video' # video)
                => /\ remote[proc[p].pred].status = StatusSucceeded
                   /\ remote[proc[p].pred].output = "string"]_vars

\* A call is about to download the artifact of a succeeded prediction while
\* the other prediction, still running, has no artifact stored.
C32_Witness ==
    \E p \in Procs, j \in Jobs :
        /\ proc[p].pc = "download" /\ proc[p].pred # j
        /\ remote[proc[p].pred].status = StatusSucceeded
        /\ remote[j].status \in Running /\ stored[j] = 0

\* C33: a Continue whose last fetched prediction is succeeded, the fetch on
\* the tick after the deadline included, downloads the artifact and returns
\* completed; it answers with an error only when the output or the download
\* itself is at fault.
C33_SucceededCompletes ==
    \A p \in Procs :
        (resp[p].seen = StatusSucceeded /\ resp[p].err \notin {"output", "download"})
            => resp[p].kind = "completed"

\* C34: a record whose status is completed was written after a download
\* that finished without error: the video file its output_path names exists
\* under that storage id and has the recorded file_size.  Stated for the
\* runs without a storage id drawn twice.
C34_CompletedHasArtifact ==
    \A s \in FolderNames :
        (LoadMetadata(s).status = "completed" /\ ~collided)
            => /\ LoadMetadata(s).output_path = s
               /\ video[s].present
               /\ video[s].pred = LoadMetadata(s).prediction_id
               /\ video[s].size = LoadMetadata(s).file_size

\* C35: when CreatePrediction fails, Submit returns an error and the store
\* is unchanged: the step makes no folder and writes no record, no video and
\* no input image.
C35_FailedSubmitLeavesStore ==
    [][\A p \in Procs :
          (GenerateReturns(p) /\ resp'[p].err \in CreateOutcomes \ {"created"})
              => /\ resp'[p].kind = "error"
                 /\ resp'[p].pred = 0 /\ resp'[p].sid = 0
                 /\ remote' = remote
                 /\ folders' = folders /\ meta' = meta /\ video' = video
                 /\ inputImage' = inputImage]_vars

\* C36: a continue call whose download of the artifact fails (nothing is
\* stored by the step that ends the download) returns an error and leaves
\* every record and the provider's prediction as they were, so the record is
\* not marked completed by it and the job can be continued again.
C36_FailedDownloadKeepsRecord ==
    [][\A p \in Procs :
          (proc[p].pc = "download" /\ proc'[p] # proc[p] /\ stored' = stored)
              => /\ proc'[p] = Idle
                 /\ resp'[p].kind = "error"
                 /\ resp'[p].err = "download"
                 /\ meta' = meta
                 /\ remote' = remote
                 /\ remote[proc[p].pred].status = StatusSucceeded]_vars

\* A continue call that failed in the download, and after it another call
\* for the same job that downloaded the artifact and wrote the completed
\* record.
C36_Witness ==
    \E p \in Procs, q \in Procs :
        /\ p # q
        /\ ~overlap
        /\ resp[p].err = "download" /\ resp[p].kind = "error"
        /\ ~resp[p].termAtStart
        /\ resp[q].kind = "completed" /\ resp[q].wrote
        /\ resp[q].pred = resp[p].pred
        /\ LoadMetadata(resp[q].usedSid).status = "completed"
        /\ LoadMetadata(resp[q].usedSid).prediction_id = resp[q].pred
        /\ video[resp[q].usedSid].present
        /\ stored[resp[q].pred] = 1

\* ------------------------------------------------------------ id arguments
\* The prediction ids a client can hold as strings, and the prediction each
\* names.
PredictionIDs == {"p1", "p2"}

PredictionOf(id) == IF id = "p1" THEN 1 ELSE 2

\* The values of prediction_id and of operation_id in a call: absent, not a
\* string, the empty string, or the id of a prediction.
IdentArgs ==
    [prediction_id : {Absent, NotAString, ""} \cup PredictionIDs,
     operation_id : {Absent, NotAString, ""} \cup PredictionIDs]

\* handleContinueOperation with its id arguments: without an operation id
\* the handler returns invalid_parameters at once; with one it finds or
\* generates the storage id and calls ContinueGeneration for the prediction
\* the id names.
handleContinueIdent(p) ==
    /\ Free(p)
    /\ ncalls < MaxCalls
    /\ ncalls' = ncalls + 1
    /\ \E a \in IdentArgs :
         LET op == OperationID(a)
         IN IF op = ""
            THEN /\ resp' = [resp EXCEPT ![p] =
                               BuildErrorResponse("continue_operation", "invalid_parameters",
                                   <<"prediction_id or operation_id is required">>, 0)]
                 /\ ident' = [NoIdent EXCEPT !.prediction_id = a.prediction_id,
                                             !.operation_id = a.operation_id,
                                             !.calls = ident.calls + 1]
                 /\ UNCHANGED <<proc, overlap>>
            ELSE /\ PredictionOf(op) \in Created
                 /\ \E t \in 1..MaxTicks, fresh \in GenerateStorageID :
                      LET j == PredictionOf(op)
                          found == findStorageIDForPrediction(j)
                          s == IF found # 0 THEN found ELSE fresh
                      IN /\ proc' = [proc EXCEPT ![p] =
                                    [Idle EXCEPT !.pc = "wait", !.pred = j, !.sid = s,
                                                 !.ticks = t,
                                                 !.termAtStart =
                                                     (found # 0 /\ LoadMetadata(s).status
                                                                     \in RecordTerminal)]]
                         /\ overlap' = (overlap \/ \E q \in Procs \ {p} :
                                                      proc[q].pc # "idle" /\ proc[q].pred = j)
                         /\ ident' = [prediction_id |-> a.prediction_id,
                                      operation_id |-> a.operation_id,
                                      operationID |-> op,
                                      calls |-> ident.calls + 1,
                                      scanned |-> TRUE,
                                      allocated |-> (found = 0)]
                 /\ resp' = [resp EXCEPT ![p] = NoResp]
    /\ UNCHANGED <<remote, folders, meta, video, stored, issued, persisted, collided,
                   msgVars, args, params, input, inputImage, waitTime, reportVars>>

\* The calls of one caller, continue_operation taking its id arguments.
IdentNext ==
    \/ Provider
    \/ GenerateTextToVideo(Caller)
    \/ handleContinueIdent(Caller)
    \/ CancelContext(Caller)
    \/ WaitStep(Caller)
    \/ SaveVideoFromURL(Caller)
    \/ SaveCompletion(Caller)

SpecIdent == Init /\ [][IdentNext]_vars

====
